---- MODULE Spec2Model ----
(***************************************************************************)
(* Model of the PubMed ingestion pipeline of pubmed_fetcher.py: the        *)
(* orchestrator of the __main__ block, search_pubmed,                      *)
(* fetch_article_details_with_abstract, clean_text, the enrichment step    *)
(* (extract_keywords, generate_summary) and store_articles with its        *)
(* SQLAlchemy session over the articles table.                             *)
(*                                                                         *)
(* Text is a sequence of one-character strings.  Python's None is the      *)
(* one-element sequence None, a dictionary key that is absent is Missing.  *)
(***************************************************************************)
EXTENDS Integers, Sequences, FiniteSets, TLC

\* ------------------------------------------------------------------ bounds

\* Largest number of identifiers one search returns (retmax, MAX_RESULTS in
\* the program, kept small here).
MaxBatch == 3

\* KEYWORD_COUNT of the program.
KEYWORD_COUNT == 15

\* ------------------------------------------------------------------ values

None == <<"None">>
Missing == <<"Missing">>
NA == <<"N", "/", "A">>

\* A test that takes every value for set.
TruthyAlways(s) == TRUE

\* Python truthiness of an optional string: None and "" are falsy.
Truthy(s) == s # None /\ s # <<>>

\* Identifiers the remote index can return.
Ids == {<<"1">>, <<"2">>}

IsSpace(c) == c \in {" ", "\n"}

IsLetter(c) == c \in {"x", "y", "z", "N", "A", "L"}

\* ------------------------------------------------------------ text helpers

RECURSIVE LStrip(_)
LStrip(s) == IF s # <<>> /\ IsSpace(Head(s)) THEN LStrip(Tail(s)) ELSE s

RECURSIVE RStrip(_)
RStrip(s) ==
    IF s # <<>> /\ IsSpace(s[Len(s)]) THEN RStrip(SubSeq(s, 1, Len(s) - 1)) ELSE s

\* str.strip()
Strip(s) == RStrip(LStrip(s))

\* s starts with the non-empty sequence p
StartsWith(s, p) == Len(s) >= Len(p) /\ SubSeq(s, 1, Len(p)) = p

\* str.replace(old, new), old non-empty: leftmost non-overlapping occurrences
RECURSIVE Replace(_, _, _)
Replace(s, old, new) ==
    IF s = <<>> THEN <<>>
    ELSE IF StartsWith(s, old)
         THEN new \o Replace(SubSeq(s, Len(old) + 1, Len(s)), old, new)
         ELSE <<Head(s)>> \o Replace(Tail(s), old, new)

\* Index of the first ">" of s at or after position i that no newline
\* precedes, 0 when there is none: where '<.*?>' ends ('.' matches no newline).
RECURSIVE CloseAt(_, _)
CloseAt(s, i) ==
    IF i > Len(s) \/ s[i] = "\n" THEN 0
    ELSE IF s[i] = ">" THEN i
    ELSE CloseAt(s, i + 1)

\* re.sub('<.*?>', '', text)
RECURSIVE StripTags(_)
StripTags(s) ==
    IF s = <<>> THEN <<>>
    ELSE IF Head(s) = "<" /\ CloseAt(s, 2) # 0
         THEN StripTags(SubSeq(s, CloseAt(s, 2) + 1, Len(s)))
         ELSE <<Head(s)>> \o StripTags(Tail(s))

\* re.sub(r'\s+', ' ', text)
RECURSIVE CollapseSpace(_)
CollapseSpace(s) ==
    IF s = <<>> THEN <<>>
    ELSE IF IsSpace(Head(s))
         THEN <<" ">> \o CollapseSpace(LStrip(s))
         ELSE <<Head(s)>> \o CollapseSpace(Tail(s))

\* The chain of str.replace calls of clean_text, as the source file has them.
\* "a^", "EUR" and "TM" stand for the three non-ASCII characters of the
\* mis-encoded apostrophe.
ReplaceEntities(s) ==
    Replace(Replace(Replace(Replace(Replace(s,
        <<"&">>, <<"&">>),
        <<"<">>, <<"<">>),
        <<">">>, <<">">>),
        <<"\"">>, <<"\"">>),
        <<"a^", "EUR", "TM">>, <<"'">>)

clean_text(text) ==
    IF text = None THEN <<>>
    ELSE Strip(CollapseSpace(StripTags(ReplaceEntities(text))))

\* ------------------------------------------------- the efetch response

\* The PubmedArticle elements the remote service can answer with for one
\* requested identifier.  title is the joined itertext() of ArticleTitle,
\* abstract the list of AbstractText elements, pubdate the PubDate element
\* with the text of its four children; None is an absent element, and a
\* PubDate that is not present is an absent element too.
FullDate == [present |-> TRUE, Year |-> <<"2023">>, Month |-> <<"06">>,
             Day |-> <<"15">>, MedlineDate |-> None]

MedlineOnly == [present |-> TRUE, Year |-> <<"2023">>, Month |-> <<"06">>,
                Day |-> None, MedlineDate |-> <<"2023 Jun">>]

NoPubDate == [present |-> FALSE, Year |-> None, Month |-> None, Day |-> None,
              MedlineDate |-> None]

Shapes == {"full", "bare", "titled", "nopmid", "nodate"}

Doc(shape, id) ==
    CASE shape = "full" ->
           [pmid |-> id, title |-> <<"x", " ", "<", "y", ">", "z">>,
            abstract |-> << [label |-> <<"L">>, text |-> <<"x", "\n", "y", " ">>] >>,
            pubdate |-> FullDate]
      [] shape = "bare" ->
           [pmid |-> id, title |-> None, abstract |-> <<>>,
            pubdate |-> MedlineOnly]
      [] shape = "titled" ->
           [pmid |-> id, title |-> <<"z">>, abstract |-> <<>>,
            pubdate |-> FullDate]
      [] shape = "nopmid" ->
           [pmid |-> None, title |-> <<"y">>,
            abstract |-> << [label |-> None, text |-> <<"z">>] >>,
            pubdate |-> FullDate]
      [] shape = "nodate" ->
           [pmid |-> id, title |-> <<"y">>,
            abstract |-> << [label |-> None, text |-> <<"z">>] >>,
            pubdate |-> NoPubDate]

\* Lines 112-118: the abstract sections joined, each with its bold label.
RECURSIVE AbstractText(_)
AbstractText(elems) ==
    IF elems = <<>> THEN <<>>
    ELSE LET e == Head(elems)
             lab == IF Truthy(e.label)
                    THEN <<"*", "*">> \o e.label \o <<":", "*", "*", " ">>
                    ELSE <<>>
             par == Strip(e.text)
         IN lab \o (IF par # <<>> THEN par \o <<"\n">> ELSE <<>>)
                \o AbstractText(Tail(elems))

\* A date without the fallback to MedlineDate.
PublicationDateNoFallback(pd) ==
    IF Truthy(pd.Year) /\ Truthy(pd.Month) /\ Truthy(pd.Day)
    THEN pd.Year \o <<"-">> \o pd.Month \o <<"-">> \o pd.Day
    ELSE NA

\* Line 124.
PublicationDate(pd) ==
    IF Truthy(pd.Year) /\ Truthy(pd.Month) /\ Truthy(pd.Day)
    THEN pd.Year \o <<"-">> \o pd.Month \o <<"-">> \o pd.Day
    ELSE IF Truthy(pd.MedlineDate) THEN pd.MedlineDate ELSE NA

\* Lines 120-123 call findtext on the PubDate element: an AttributeError when
\* the element is absent.
ParseRaises(doc) == ~doc.pubdate.present

\* Lines 109-125: one PubmedArticle element to a record.
ParseArticle(doc) ==
    [pmid |-> doc.pmid,
     title |-> IF doc.title # None THEN Strip(doc.title) ELSE NA,
     abstract |-> Strip(AbstractText(doc.abstract)),
     pub_date |-> PublicationDate(doc.pubdate)]

\* fetch_article_details_with_abstract on a parsed response: the exception of
\* one record leaves the loop for the handler of line 128, which returns [].
FetchResult(docs) ==
    IF \E k \in 1..Len(docs) : ParseRaises(docs[k]) THEN <<>>
    ELSE [k \in 1..Len(docs) |-> ParseArticle(docs[k])]

\* ------------------------------------------------------------- enrichment

\* First k elements of s.
Take(s, k) == SubSeq(s, 1, IF Len(s) < k THEN Len(s) ELSE k)

\* The candidate phrases Rake ranks, taken here as the maximal runs of word
\* characters of the text in their order of occurrence.
RECURSIVE Words(_, _)
Words(s, cur) ==
    IF s = <<>> THEN (IF cur = <<>> THEN <<>> ELSE <<cur>>)
    ELSE IF IsLetter(Head(s)) THEN Words(Tail(s), Append(cur, Head(s)))
    ELSE (IF cur = <<>> THEN <<>> ELSE <<cur>>) \o Words(Tail(s), <<>>)

\* Lines 133-143; punkt is the outcome of check_and_download_nltk_data.
extract_keywords(text, num_keywords, punkt) ==
    IF text = <<>> THEN <<>>
    ELSE IF ~punkt THEN <<>>
    ELSE Take(Words(text, <<>>), num_keywords)

\* Line 136: with the stopword corpus missing the function builds Rake()
\* with no list, and Rake then loads the same corpus of nltk; the LookupError
\* is raised outside every try of the function.
RakeRaises(text, punkt, stopwords) == text # <<>> /\ punkt /\ ~stopwords

\* Lines 145-158.  The texts here hold at most SUMMARY_SENTENCE_COUNT
\* sentences, all of which LexRank selects.
generate_summary(text, summarizer, punkt) ==
    IF text = <<>> THEN <<>>
    ELSE IF ~summarizer THEN <<>>
    ELSE IF ~punkt THEN <<>>
    ELSE text

\* Line 230.
CleanArticle(a) ==
    [pmid |-> a.pmid, title |-> clean_text(a.title),
     abstract |-> clean_text(a.abstract), pub_date |-> a.pub_date,
     keywords |-> Missing, summary |-> Missing]

\* Lines 236-246: each key is set only when its stage runs.
EnrichArticle(a, punkt, summarizer) ==
    [a EXCEPT
       !.keywords = IF punkt
                    THEN extract_keywords(a.title \o <<".", " ">> \o a.abstract,
                                          KEYWORD_COUNT, punkt)
                    ELSE Missing,
       !.summary = IF summarizer /\ punkt
                   THEN generate_summary(a.abstract, summarizer, punkt)
                   ELSE Missing]

\* Line 238 raises at the first record whose keywords are extracted.
EnrichRaises(data, punkt, stopwords) ==
    /\ punkt
    /\ \E k \in 1..Len(data) :
          RakeRaises(data[k].title \o <<".", " ">> \o data[k].abstract,
                     punkt, stopwords)

\* ----------------------------------------------- the articles table, session

\* The key taken from the wrong column.
KeyOfTitle(row) == row.title

\* Line 164: the primary key column of Article.
KeyOf(row) == row.id

\* A lookup that never finds the row.
ExistingNever(table, pmid) == {}

\* Line 194: session.query(Article).filter_by(id=pmid).first(), on the table
\* as the open transaction sees it.
Existing(table, pmid) == {r \in table : KeyOf(r) = pmid}

\* dict.get(key, default)
Get(v, default) == IF v = Missing THEN default ELSE v

\* Line 197: the Article built from one record.
NewArticle(a) ==
    [id |-> a.pmid, title |-> Get(a.title, NA), abstract |-> Get(a.abstract, NA),
     pub_date |-> Get(a.pub_date, NA), keywords |-> Get(a.keywords, <<>>),
     summary |-> Get(a.summary, NA)]

\* Lines 164-165: an INSERT the table refuses (primary key, NOT NULL title).
InsertRefused(table, row) ==
    \/ \E r \in table : KeyOf(r) = KeyOf(row)
    \/ row.title = None

\* An upsert that overwrites the row it finds.
WhenExistingOverwrite(table, a) ==
    (table \ {r \in table : r.id = a.pmid}) \cup {NewArticle(a)}

\* Line 195: a record whose identifier is stored already stages nothing.
WhenExisting(table, a) == table

\* A rollback that keeps what the transaction had written.
RollbackKeepsWritten(durable, table) == table

\* Line 204: session.rollback() leaves the durable rows as they were before
\* the transaction.
Rollback(durable, table) == durable

\* The INSERTs of a flush, in the order the rows were added: the table after
\* them, and whether the database took them all.
RECURSIVE InsertAll(_, _)
InsertAll(table, rows) ==
    IF rows = <<>> THEN [ok |-> TRUE, table |-> table]
    ELSE IF InsertRefused(table, Head(rows)) THEN [ok |-> FALSE, table |-> table]
    ELSE InsertAll(table \cup {Head(rows)}, Tail(rows))

\* Session.flush(): the pending rows are written into the transaction.  A
\* failed flush rolls the transaction back and leaves the session inactive
\* until rollback() is called.  fails: the database refuses the write for a
\* reason of its own (read-only file, lock, full disk).
Flush(durable, sess, fails) ==
    IF sess.new = <<>> THEN sess
    ELSE IF fails \/ ~InsertAll(sess.table, sess.new).ok
         THEN [state |-> "inactive", new |-> <<>>,
               table |-> Rollback(durable, sess.table)]
         ELSE [state |-> "active", new |-> <<>>,
               table |-> InsertAll(sess.table, sess.new).table]

Faults == {"none", "select", "flush"}

\* Lines 191-200: one iteration of the loop of store_articles.  The query of
\* line 194 first flushes what is pending (autoflush), then selects.
\* Result: the session after it and how the record was counted.
StoreRecord(durable, sess, a, fault) ==
    IF ~Truthy(a.pmid) THEN [sess |-> sess, as |-> "skipped"]
    ELSE IF sess.state = "inactive" THEN [sess |-> sess, as |-> "error"]
    ELSE LET flushed == Flush(durable, sess, fault = "flush")
         IN IF flushed.state = "inactive" THEN [sess |-> flushed, as |-> "error"]
            ELSE IF fault = "select" THEN [sess |-> flushed, as |-> "error"]
            ELSE IF Existing(flushed.table, a.pmid) # {}
                 THEN [sess |-> [flushed EXCEPT !.table = WhenExisting(@, a)],
                       as |-> "skipped"]
                 ELSE [sess |-> [flushed EXCEPT !.new = Append(@, NewArticle(a))],
                       as |-> "stored"]

CommitFaults == {"none", "commit"}

\* Lines 201-205: session.commit() flushes, then commits; any exception is
\* caught and answered with session.rollback().  fault "commit": the flush or
\* the COMMIT of session.commit() raises.  Result: the durable rows after it
\* and whether the commit went through.
Commit(durable, sess, fault) ==
    IF sess.state = "inactive"
    THEN [rows |-> Rollback(durable, sess.table), ok |-> FALSE]
    ELSE LET flushed == Flush(durable, sess, fault = "commit")
         IN IF flushed.state = "inactive"
            THEN [rows |-> Rollback(durable, flushed.table), ok |-> FALSE]
            ELSE IF fault = "commit"
                 THEN [rows |-> Rollback(durable, flushed.table), ok |-> FALSE]
                 ELSE [rows |-> flushed.table, ok |-> TRUE]

\* ------------------------------------------------------------------ state

VARIABLES
    pc,                    \* where the __main__ block stands
    punkt_available,       \* line 214: the punkt tokenizer is installed
    stopwords_available,   \* line 215: the stopword corpus is installed
    summarizer,            \* SumyLexRankSummarizer is not None (lines 14-21)
    article_ids,           \* line 221
    esearch,               \* how the esearch call ended: "none", "ok", "error"
    efetch,                \* how the efetch call ended: "none", "ok", "error"
    docs,                  \* number of PubmedArticle elements of the response
    articles_data,         \* line 224
    cleaned_articles_data, \* line 230, with the keys of lines 238 and 244
    db,                    \* the committed rows of the articles table
    session,               \* the session of store_articles
    idx,                   \* next record of the loop of store_articles
    stored_count, skipped_count, error_count,
    fault,                 \* what the database did at the last step
    commit,                \* how the final commit ended: "none", "ok", "failed"
    finished,              \* "Storage finished." was printed (line 257)
    result,                \* what store_articles returned to its caller
    replay,                \* this run meets the remote result set of the last
    prev,                  \* what the last run fetched, when replay
    input_text,            \* the argument of clean_text under test
    once,                  \* clean_text(input_text)
    twice,                 \* clean_text(clean_text(input_text))
    pub_date_element,      \* line 119 of a PubmedArticle under test
    publication_date,      \* line 124 for it
    articles_from_db,      \* app.py line 74: the rows the dashboard reads
    articles_list_of_dicts, \* app.py lines 79-92
    summary_shown          \* app.py lines 505-509: the summary section

installed == <<punkt_available, stopwords_available, summarizer>>
remote == <<article_ids, esearch, efetch, docs>>
counts == <<stored_count, skipped_count, error_count>>
outcome == <<commit, finished, result>>
history == <<replay, prev>>
cleaning == <<input_text, once, twice>>
dating == <<pub_date_element, publication_date>>
reading == <<articles_from_db, articles_list_of_dicts, summary_shown>>
units == <<cleaning, dating, reading>>

vars == <<pc, installed, remote, articles_data, cleaned_articles_data, db,
          session, idx, counts, fault, outcome, history, units>>

NoSession == [state |-> "none", new |-> <<>>, table |-> {}]

NoPrev == [ids |-> <<>>, efetch |-> "none", docs |-> 0, data |-> <<>>,
           errors |-> FALSE]

\* The stage of the run for each place of the __main__ block.
Stage(p) == IF p = "StoreLoop" THEN "Storing" ELSE p

\* Sequences over S of length lo..hi
SeqsOf(S, lo, hi) == UNION {[1..n -> S] : n \in lo..hi}

\* What a fresh process holds in its locals.
FreshLocals ==
    /\ article_ids' = <<>>
    /\ esearch' = "none"
    /\ efetch' = "none"
    /\ docs' = 0
    /\ articles_data' = <<>>
    /\ cleaned_articles_data' = <<>>
    /\ session' = NoSession
    /\ idx' = 0
    /\ stored_count' = 0
    /\ skipped_count' = 0
    /\ error_count' = 0
    /\ fault' = "none"
    /\ commit' = "none"
    /\ finished' = FALSE
    /\ result' = Missing

\* The functions exercised on their own are not in use during a run.
NoCleaning == input_text = Missing /\ once = Missing /\ twice = Missing

NoDating == pub_date_element = Missing /\ publication_date = Missing

NoReading ==
    /\ articles_from_db = <<>>
    /\ articles_list_of_dicts = <<>>
    /\ summary_shown = <<>>

\* The script before it is started, over an empty database.
InitRun ==
    /\ pc = "Idle"
    /\ article_ids = <<>>
    /\ esearch = "none"
    /\ efetch = "none"
    /\ docs = 0
    /\ articles_data = <<>>
    /\ cleaned_articles_data = <<>>
    /\ db = {}
    /\ session = NoSession
    /\ idx = 0
    /\ stored_count = 0
    /\ skipped_count = 0
    /\ error_count = 0
    /\ fault = "none"
    /\ commit = "none"
    /\ finished = FALSE
    /\ result = Missing
    /\ replay = FALSE
    /\ prev = NoPrev

\* What is installed on the machine does not change between the runs.
Init ==
    /\ InitRun
    /\ punkt_available \in BOOLEAN
    /\ stopwords_available \in BOOLEAN
    /\ summarizer \in BOOLEAN
    /\ NoCleaning /\ NoDating /\ NoReading

\* A machine with every resource installed.
AllInstalled ==
    /\ punkt_available = TRUE
    /\ stopwords_available = TRUE
    /\ summarizer = TRUE

\* ---------------------------------------------------------------- actions

\* A search that hands on what it holds when the call failed.
search_pubmed_partial(how, ids) == ids

\* Lines 84-95: the identifiers of the response, or [] when the request or
\* the parse raised.  ids is what the index holds for the term.
search_pubmed(how, ids) == IF how = "error" THEN <<>> ELSE ids

\* Lines 223 and 271: the branch on the identifier list.
AfterSearch(ids) == IF ids # <<>> THEN "Fetching" ELSE "Aborted"

\* Line 224 onwards: nothing after the fetch leaves the sequence of stages.
AfterFetch(data) == "Cleaning"

\* Lines 97-130 on the response documents; "error" is a failed request or an
\* unparsable body.
fetch_article_details_with_abstract(ids, how, response) ==
    IF ids = <<>> THEN <<>>
    ELSE IF how = "error" THEN <<>>
    ELSE FetchResult(response)

CleanAll(data) == [k \in 1..Len(data) |-> CleanArticle(data[k])]

EnrichAll(data, punkt, summ) ==
    [k \in 1..Len(data) |-> EnrichArticle(data[k], punkt, summ)]

\* Lines 210-219: the process starts and checks its resources.
Start ==
    /\ pc = "Idle"
    /\ pc' = "Searching"
    /\ UNCHANGED <<units, installed, remote, articles_data, cleaned_articles_data, db,
                   session, idx, counts, fault, outcome, history>>

\* Lines 221-223, 271-272.
Search ==
    /\ pc = "Searching"
    /\ \E how \in {"ok", "error"}, ids \in SeqsOf(Ids, 0, MaxBatch) :
          /\ replay => (how = "ok" /\ ids = prev.ids)
          /\ esearch' = how
          /\ article_ids' = search_pubmed(how, ids)
    /\ pc' = AfterSearch(article_ids')
    /\ UNCHANGED <<units, installed, efetch, docs, articles_data,
                   cleaned_articles_data, db, session, idx, counts, fault,
                   outcome, history>>

\* Line 224: the service answers with one document for each identifier.
Fetch ==
    /\ pc = "Fetching"
    /\ ~replay
    /\ \E how \in {"ok", "error"}, shapes \in [1..Len(article_ids) -> Shapes] :
          LET response == [k \in 1..Len(article_ids) |->
                              Doc(shapes[k], article_ids[k])]
          IN /\ efetch' = how
             /\ docs' = IF how = "ok" THEN Len(response) ELSE 0
             /\ articles_data' =
                   fetch_article_details_with_abstract(article_ids, how, response)
    /\ pc' = AfterFetch(articles_data')
    /\ UNCHANGED <<units, installed, article_ids, esearch, cleaned_articles_data, db,
                   session, idx, counts, fault, outcome, history>>

\* Line 224, when the service answers as it did to the last run.
FetchAgain ==
    /\ pc = "Fetching"
    /\ replay
    /\ efetch' = prev.efetch
    /\ docs' = prev.docs
    /\ articles_data' = prev.data
    /\ pc' = AfterFetch(articles_data')
    /\ UNCHANGED <<units, installed, article_ids, esearch, cleaned_articles_data, db,
                   session, idx, counts, fault, outcome, history>>

\* Line 230.
Clean ==
    /\ pc = "Cleaning"
    /\ cleaned_articles_data' = CleanAll(articles_data)
    /\ pc' = "Enriching"
    /\ UNCHANGED <<units, installed, remote, articles_data, db, session, idx, counts,
                   fault, outcome, history>>

\* Lines 236-246; an exception of line 238 is caught nowhere and ends the
\* process with a traceback.
Enrich ==
    /\ pc = "Enriching"
    /\ IF EnrichRaises(cleaned_articles_data, punkt_available,
                       stopwords_available)
       THEN /\ pc' = "Crashed"
            /\ UNCHANGED cleaned_articles_data
       ELSE /\ pc' = "Storing"
            /\ cleaned_articles_data' =
                  EnrichAll(cleaned_articles_data, punkt_available, summarizer)
    /\ UNCHANGED <<units, installed, remote, articles_data, db, session, idx, counts,
                   fault, outcome, history>>

\* Lines 252, 259-269: nothing to store; the dump is written and the run ends.
NoData ==
    /\ pc = "Storing"
    /\ cleaned_articles_data = <<>>
    /\ pc' = "Done"
    /\ UNCHANGED <<units, installed, remote, articles_data, cleaned_articles_data, db,
                   session, idx, counts, fault, outcome, history>>

\* Lines 252-256, 186-189: the session opens on the stored rows.
StoreBegin ==
    /\ pc = "Storing"
    /\ cleaned_articles_data # <<>>
    /\ session' = [state |-> "active", new |-> <<>>, table |-> db]
    /\ idx' = 1
    /\ pc' = "StoreLoop"
    /\ UNCHANGED <<units, installed, remote, articles_data, cleaned_articles_data, db,
                   counts, fault, outcome, history>>

\* Lines 190-200: one record of the batch.
StoreStep ==
    /\ pc = "StoreLoop"
    /\ idx <= Len(cleaned_articles_data)
    /\ \E f \in Faults :
          /\ f = "flush" => /\ session.state = "active"
                            /\ session.new # <<>>
                            /\ Truthy(cleaned_articles_data[idx].pmid)
          /\ f = "select" => /\ session.state = "active"
                             /\ Truthy(cleaned_articles_data[idx].pmid)
          /\ fault' = f
          /\ LET r == StoreRecord(db, session, cleaned_articles_data[idx], f)
             IN /\ session' = r.sess
                /\ stored_count' = stored_count + (IF r.as = "stored" THEN 1 ELSE 0)
                /\ skipped_count' = skipped_count + (IF r.as = "skipped" THEN 1 ELSE 0)
                /\ error_count' = error_count + (IF r.as = "error" THEN 1 ELSE 0)
    /\ idx' = idx + 1
    /\ UNCHANGED <<units, pc, installed, remote, articles_data, cleaned_articles_data,
                   db, outcome, history>>

\* Lines 201-205, then 257 and 261-269: the commit, the return to the
\* __main__ block, its "Storage finished." and the end of the run.
StoreCommit ==
    /\ pc = "StoreLoop"
    /\ idx > Len(cleaned_articles_data)
    /\ \E f \in CommitFaults :
          /\ f = "commit" => session.state = "active"
          /\ fault' = f
          /\ LET r == Commit(db, session, f)
             IN /\ db' = r.rows
                /\ commit' = IF r.ok THEN "ok" ELSE "failed"
    /\ session' = [state |-> "closed", new |-> <<>>, table |-> {}]
    /\ result' = None
    /\ finished' = TRUE
    /\ pc' = "Done"
    /\ UNCHANGED <<units, installed, remote, articles_data, cleaned_articles_data,
                   idx, counts, history>>

\* The script is started again: a new process over the same database file.
\* With again, the run that just ended committed and the next one meets the
\* same remote result set.
Restart ==
    /\ pc \in {"Done", "Aborted", "Crashed"}
    /\ \E again \in BOOLEAN :
          /\ again => commit = "ok"
          /\ replay' = again
          /\ prev' = IF again
                     THEN [ids |-> article_ids, efetch |-> efetch,
                           docs |-> docs, data |-> articles_data,
                           errors |-> error_count > 0]
                     ELSE NoPrev
    /\ pc' = "Idle"
    /\ FreshLocals
    /\ UNCHANGED <<installed, db, units>>

Next ==
    \/ Start
    \/ Search
    \/ Fetch
    \/ FetchAgain
    \/ Clean
    \/ Enrich
    \/ NoData
    \/ StoreBegin
    \/ StoreStep
    \/ StoreCommit
    \/ Restart

Spec == Init /\ [][Next]_vars

\* ------------------------------------------------- clean_text on its own

\* Longest argument drawn from CleanAlphabet.
MaxText == 4

\* Characters that matter to clean_text: the first characters of entities
\* and tags, both kinds of whitespace and a letter.
CleanAlphabet == {"&", "<", ">", "\n", " ", "x"}

\* Arguments with the entities of line 74 spelled out and markup around
\* whitespace runs.
LongTexts ==
    { <<"A", " ", "&", "a", "m", "p", ";", " ", "B", " ", "<", "b", ">",
        "b", "o", "l", "d", "<", "/", "b", ">", "\n", "\n", " ", " ",
        "t", "e", "x", "t">>,
      <<"&", "a", "m", "p", ";">>,
      <<"&", "l", "t", ";", "b", "&", "g", "t", ";">>,
      <<"&", "q", "u", "o", "t", ";">>,
      <<"&", "a", "m", "p", ";", "l", "t", ";">>,
      <<"a^", "EUR", "TM">> }

TextInputs == {None} \cup SeqsOf(CleanAlphabet, 0, MaxText) \cup LongTexts

CleanInit ==
    /\ InitRun /\ AllInstalled
    /\ NoDating /\ NoReading
    /\ input_text \in TextInputs
    /\ once = Missing
    /\ twice = Missing

\* Lines 71-78, called on the argument.
CleanOnce ==
    /\ input_text # Missing /\ once = Missing
    /\ once' = clean_text(input_text)
    /\ UNCHANGED <<pc, installed, remote, articles_data, cleaned_articles_data,
                   db, session, idx, counts, fault, outcome, history,
                   input_text, twice, dating, reading>>

\* Lines 71-78, called on its own result.
CleanTwice ==
    /\ once # Missing /\ twice = Missing
    /\ twice' = clean_text(once)
    /\ UNCHANGED <<pc, installed, remote, articles_data, cleaned_articles_data,
                   db, session, idx, counts, fault, outcome, history,
                   input_text, once, dating, reading>>

CleanNext ==
    \/ CleanOnce
    \/ CleanTwice

CleanSpec == CleanInit /\ [][CleanNext]_vars

\* --------------------------------------------- the publication date alone

\* The PubDate elements of a response: each child absent (None), present
\* without text, or present with a text.
PubDates ==
    {NoPubDate} \cup
    [present : {TRUE},
     Year : {None, <<>>, <<"2023">>},
     Month : {None, <<>>, <<"06">>, <<"Jun">>},
     Day : {None, <<>>, <<"15">>},
     MedlineDate : {None, <<>>, <<"2023 Jun">>}]

\* What the loop body leaves when line 120 raised.
AttributeError == <<"AttributeError">>

DateInit ==
    /\ InitRun /\ AllInstalled
    /\ NoCleaning /\ NoReading
    /\ pub_date_element \in PubDates
    /\ publication_date = Missing

\* Lines 119-124 for one PubmedArticle element.
ParseDate ==
    /\ publication_date = Missing
    /\ publication_date' = IF ~pub_date_element.present THEN AttributeError
                           ELSE PublicationDate(pub_date_element)
    /\ UNCHANGED <<pc, installed, remote, articles_data, cleaned_articles_data,
                   db, session, idx, counts, fault, outcome, history,
                   pub_date_element, cleaning, reading>>

DateNext == ParseDate

DateSpec == DateInit /\ [][DateNext]_vars

\* ------------------------------------------------ the dashboard's reader

\* The display sentinels of app.py.
Untitled == <<"U", "n", "t", "i", "t", "l", "e", "d">>
NoAbstract == <<"N", "o", " ", "a", "b", "s", "t", "r", "a", "c", "t", ".">>
NoSummary == <<"N", "o", " ", "s", "u", "m", "m", "a", "r", "y", ".">>
NoSummaryAvailable ==
    <<"N", "o", " ", "s", "u", "m", "m", "a", "r", "y", " ", "a", "v", "a", "i", "l", "a", "b", "l", "e", ".">>

\* Rows of the articles table as the dashboard can meet them: every column
\* NULL or set, the summary also the empty string.
StoredRows ==
    [id : {None, <<"1">>},
     title : {None, <<"x">>},
     abstract : {None, <<"y">>},
     pub_date : {None, <<"2023">>},
     keywords : {None, << <<"x">>, <<"y">> >>},
     summary : {None, <<>>, <<"z">>}]

\* app.py line 83: ", ".join(keywords_data)
RECURSIVE Join(_)
Join(list) ==
    IF list = <<>> THEN <<>>
    ELSE IF Len(list) = 1 THEN Head(list)
    ELSE Head(list) \o <<",", " ">> \o Join(Tail(list))

\* app.py lines 81-92: one row to the dictionary the dashboard shows.
ArticleDict(article) ==
    [id |-> IF article.id # None THEN article.id ELSE NA,
     title |-> IF article.title # None THEN article.title ELSE Untitled,
     abstract |-> IF article.abstract # None THEN article.abstract
                  ELSE NoAbstract,
     pub_date |-> IF article.pub_date # None THEN article.pub_date ELSE NA,
     keywords |-> Join(IF article.keywords # None THEN article.keywords
                       ELSE <<>>),
     summary |-> IF article.summary # None THEN article.summary
                 ELSE NoSummary]

\* app.py lines 505-509: the summary section of an article.
SummarySection(article) ==
    IF article.summary # NoSummaryAvailable THEN "markdown" ELSE "info"

ReadInit ==
    /\ InitRun /\ AllInstalled
    /\ NoCleaning /\ NoDating
    /\ articles_from_db \in {<<r>> : r \in StoredRows}
    /\ articles_list_of_dicts = <<>>
    /\ summary_shown = <<>>

\* app.py lines 62-95, the query having succeeded on a table with a row.
get_articles_from_db ==
    /\ articles_from_db # <<>> /\ articles_list_of_dicts = <<>>
    /\ articles_list_of_dicts' =
          [k \in 1..Len(articles_from_db) |-> ArticleDict(articles_from_db[k])]
    /\ UNCHANGED <<pc, installed, remote, articles_data, cleaned_articles_data,
                   db, session, idx, counts, fault, outcome, history,
                   articles_from_db, summary_shown, cleaning, dating>>

\* app.py lines 485-509: the articles are rendered.
Render ==
    /\ articles_list_of_dicts # <<>> /\ summary_shown = <<>>
    /\ summary_shown' =
          [k \in 1..Len(articles_list_of_dicts) |->
              SummarySection(articles_list_of_dicts[k])]
    /\ UNCHANGED <<pc, installed, remote, articles_data, cleaned_articles_data,
                   db, session, idx, counts, fault, outcome, history,
                   articles_from_db, articles_list_of_dicts, cleaning, dating>>

ReadNext ==
    \/ get_articles_from_db
    \/ Render

ReadSpec == ReadInit /\ [][ReadNext]_vars

\* ----------------------------------------------------------------- claims

\* The rows store_articles has staged in its session.
Staged == session.table \cup {session.new[k] : k \in 1..Len(session.new)}

\* The commit step of store_articles.
CommitStep == pc = "StoreLoop" /\ pc' = "Done"

\* C1: after any sequence of runs the durable articles table holds at most
\* one row for each identifier.
C1_UniqueIdentifier == \A r1, r2 \in db : r1.id = r2.id => r1 = r2

\* A committed batch whose two records carry the same identifier and differ.
C1_Witness ==
    /\ pc = "Done" /\ commit = "ok"
    /\ Len(cleaned_articles_data) = 2
    /\ Truthy(cleaned_articles_data[1].pmid)
    /\ cleaned_articles_data[1].pmid = cleaned_articles_data[2].pmid
    /\ cleaned_articles_data[1].title # cleaned_articles_data[2].title
    /\ stored_count = 1 /\ skipped_count = 1

\* C2: a stored row is never changed and never deleted by a later call of
\* store_articles, whatever the batch holds for its identifier.
C2_RowsNeverChange == [][\A r \in db : r \in db']_vars

\* A committed run whose only record was skipped because its identifier was
\* stored by an earlier run under another title.
C2_Witness ==
    /\ pc = "Done" /\ commit = "ok"
    /\ Len(cleaned_articles_data) = 1 /\ skipped_count = 1
    /\ \E r \in db : r.id = cleaned_articles_data[1].pmid /\ r.title # cleaned_articles_data[1].title

\* C3 as claimed: a second run on the same input after a committed first run
\* counts every record as skipped, stores none and leaves the rows as they
\* were.
C3_RerunAllSkipped ==
    [][(replay /\ CommitStep) =>
          /\ stored_count = 0
          /\ skipped_count = Len(cleaned_articles_data)
          /\ db' = db]_vars

\* C3 as amended: after a committed first run that counted no record as
\* errored, a second run on the same input stores none, counts every record
\* as skipped or (when its lookup raises) as errored, and leaves the rows as
\* they were.
C3_RerunStoresNothing ==
    [][(replay /\ ~prev.errors /\ CommitStep) =>
          /\ stored_count = 0
          /\ skipped_count + error_count = Len(cleaned_articles_data)
          /\ skipped_count >= Cardinality({k \in 1..Len(cleaned_articles_data) :
                                              ~Truthy(cleaned_articles_data[k].pmid)})
          /\ db' = db]_vars

\* A second run over two stored records, both skipped.
C3_Witness ==
    /\ replay /\ ~prev.errors
    /\ pc = "Done" /\ commit = "ok"
    /\ Len(cleaned_articles_data) = 2 /\ skipped_count = 2
    /\ \A k \in 1..2 : NewArticle(cleaned_articles_data[k]) \in db

\* C4: the batch is persisted atomically: a failed commit leaves the durable
\* rows as they were before the call, a successful one persists one row for
\* each record counted as stored.
C4_AtomicBatch ==
    [][CommitStep =>
          IF commit' = "ok"
          THEN /\ db \subseteq db'
               /\ Cardinality(db' \ db) = stored_count
               /\ \A r \in db' \ db :
                     \E k \in 1..Len(cleaned_articles_data) : r = NewArticle(cleaned_articles_data[k])
          ELSE db' = db]_vars

\* A commit that raised with two records staged, one of them written already.
C4_Witness ==
    /\ pc = "Done" /\ commit = "failed" /\ fault = "commit"
    /\ stored_count = 2

\* C5: a failed commit is reported: the caller of store_articles gets
\* something else than on success and does not print "Storage finished.".
C5_CommitFailureReported ==
    (pc = "Done" /\ commit = "failed") => (result # None /\ ~finished)

\* C6: an exception at one record does not keep a later record from being
\* staged: a record with a new identifier, met after an error was counted, is
\* staged whenever the database works for it.
C6_ErrorIsolation ==
    [][(/\ pc = "StoreLoop" /\ idx <= Len(cleaned_articles_data)
        /\ error_count > 0
        /\ Truthy(cleaned_articles_data[idx].pmid)
        /\ Existing(db \cup Staged, cleaned_articles_data[idx].pmid) = {}
        /\ fault' = "none") =>
          /\ stored_count' = stored_count + 1
          /\ NewArticle(cleaned_articles_data[idx]) \in Staged']_vars

\* The order of the stages within a run, and the start of the next run.
StageOrder ==
    {<<"Idle", "Searching">>, <<"Searching", "Fetching">>,
     <<"Searching", "Aborted">>, <<"Fetching", "Cleaning">>,
     <<"Cleaning", "Enriching">>, <<"Enriching", "Storing">>,
     <<"Storing", "Done">>,
     <<"Done", "Idle">>, <<"Aborted", "Idle">>, <<"Crashed", "Idle">>}

\* C7: a run moves through Idle, Searching, Fetching, Cleaning, Enriching,
\* Storing, Done in this order, enters Aborted only from Searching and only
\* on an empty identifier list, and every run ends in Done or Aborted: a
\* run leaves a stage only for the next one of this order.
C7_StageOrder ==
    [][Stage(pc') # Stage(pc) =>
          /\ <<Stage(pc), Stage(pc')>> \in StageOrder
          /\ Stage(pc') = "Aborted" => article_ids' = <<>>
          /\ Stage(pc') = "Fetching" => article_ids' # <<>>]_vars

\* C8: a response record that lacks a sub-element does not abort the batch:
\* every record of a parsed response is returned.
C8_NoRecordAbortsBatch == efetch = "ok" => Len(articles_data) = docs

\* C9: a failed search returns no identifiers and the run ends with no
\* fetch, no store and the durable rows unchanged.
C9_SearchFailsSoft ==
    [][esearch' = "error" =>
          /\ article_ids' = <<>>
          /\ pc' = "Aborted"
          /\ efetch' = "none"
          /\ session' = NoSession
          /\ commit' = "none"
          /\ db' = db]_vars

\* A failed search over a store that holds rows.
C9_Witness == esearch = "error" /\ pc = "Aborted" /\ db # {}

\* C10: with an enrichment resource unavailable the run continues, and the
\* stored rows carry no keywords when the tokenizer is missing and an empty
\* or null summary when the tokenizer or the summarizer is missing.
C10_EnrichmentDegradesToEmpty ==
    /\ pc # "Crashed"
    /\ ~punkt_available => \A r \in db : r.keywords = <<>>
    /\ (~punkt_available \/ ~summarizer) =>
          \A r \in db : r.summary \in {<<>>, None}

\* C11: a fetched record with a title and an empty abstract has, after the
\* enrichment stage with every resource available, the empty string as its
\* summary and an empty keyword list, and so has its stored row.
C11_EmptyAbstractEnrichesToEmpty ==
    (punkt_available /\ stopwords_available /\ summarizer) =>
       /\ pc \in {"Storing", "StoreLoop", "Done"} =>
             \A k \in 1..Len(cleaned_articles_data) :
                (/\ cleaned_articles_data[k].abstract = <<>>
                 /\ cleaned_articles_data[k].title \notin {<<>>, NA}) =>
                   /\ cleaned_articles_data[k].summary = <<>>
                   /\ cleaned_articles_data[k].keywords = <<>>
       /\ \A r \in db :
             (r.abstract = <<>> /\ r.title \notin {<<>>, NA}) =>
                /\ r.summary \in {<<>>, None}
                /\ r.keywords \in {<<>>, None}

\* C12: clean_text is idempotent: cleaning a cleaned text changes nothing.
C12_CleanIdempotent == twice # Missing => twice = once

\* C13: clean_text decodes the entities of ampersand, angle brackets and
\* quote, strips tags and collapses whitespace runs: no cleaned text holds
\* an entity any more, and 'A &amp; B <b>bold</b>\n\n  text' becomes
\* 'A & B bold text'.
C13_CleanDecodesEntities ==
    once # Missing =>
       /\ \A i \in 1..Len(once) :
             \A e \in {<<"&", "a", "m", "p", ";">>, <<"&", "l", "t", ";">>,
                        <<"&", "g", "t", ";">>, <<"&", "q", "u", "o", "t", ";">>} :
                ~StartsWith(SubSeq(once, i, Len(once)), e)
       /\ input_text = <<"A", " ", "&", "a", "m", "p", ";", " ", "B", " ", "<",
                         "b", ">", "b", "o", "l", "d", "<", "/", "b", ">",
                         "\n", "\n", " ", " ", "t", "e", "x", "t">> =>
             once = <<"A", " ", "&", " ", "B", " ", "b", "o", "l", "d", " ",
                      "t", "e", "x", "t">>

\* C14: the publication date of a PubDate element is year-month-day exactly
\* when year, month and day all have a text; otherwise it is the text of
\* MedlineDate when there is one, and otherwise 'N/A'.
C14_DateFallback ==
    (publication_date # Missing /\ pub_date_element.present) =>
       LET pd == pub_date_element
           has(v) == v \notin {None, <<>>}
       IN IF has(pd.Year) /\ has(pd.Month) /\ has(pd.Day)
          THEN publication_date =
                  pd.Year \o <<"-">> \o pd.Month \o <<"-">> \o pd.Day
          ELSE IF has(pd.MedlineDate)
               THEN publication_date = pd.MedlineDate
               ELSE publication_date = NA

\* Year 2023 and month 06 without a day, and the MedlineDate '2023 Jun'
\* taken as the date.
C14_Witness ==
    /\ pub_date_element = [present |-> TRUE, Year |-> <<"2023">>,
                           Month |-> <<"06">>, Day |-> None,
                           MedlineDate |-> <<"2023 Jun">>]
    /\ publication_date = <<"2023 Jun">>

\* C15: the dashboard's reader gives every NULL column its display
\* sentinel, 'N/A' for identifier and publication date, 'Untitled' for the
\* title, 'No abstract.' for the abstract and 'No summary available.' for
\* the summary, and the dashboard shows a row with a NULL summary as having
\* no summary.
C15_DisplaySentinels ==
    /\ articles_list_of_dicts # <<>> =>
          \A k \in 1..Len(articles_from_db) :
             LET row == articles_from_db[k]
                 shown == articles_list_of_dicts[k]
             IN /\ row.id = None => shown.id = <<"N", "/", "A">>
                /\ row.pub_date = None => shown.pub_date = <<"N", "/", "A">>
                /\ row.title = None =>
                      shown.title = <<"U", "n", "t", "i", "t", "l", "e", "d">>
                /\ row.abstract = None =>
                      shown.abstract = <<"N", "o", " ", "a", "b", "s", "t", "r",
                                         "a", "c", "t", ".">>
                /\ row.summary = None =>
                      shown.summary = <<"N", "o", " ", "s", "u", "m", "m", "a",
                                        "r", "y", " ", "a", "v", "a", "i", "l",
                                        "a", "b", "l", "e", ".">>
    /\ summary_shown # <<>> =>
          \A k \in 1..Len(articles_from_db) :
             articles_from_db[k].summary = None => summary_shown[k] = "info"

\* C16: store_articles classifies every record exactly once: the three
\* counters add up to the records met so far and, at the commit, to the
\* whole batch; a record without an identifier is counted as skipped and
\* leaves the session as it was; stored_count goes up exactly when the
\* record's row is staged, so that it is the number of rows this call staged
\* (all of them pending or written as long as no flush has failed).
C16_ClassifiedOnce ==
    /\ [](pc = "StoreLoop" =>
            /\ stored_count + skipped_count + error_count = idx - 1
            /\ session.state = "active" =>
                  stored_count = Cardinality(Staged \ db))
    /\ [](pc = "Done" /\ commit # "none" =>
            stored_count + skipped_count + error_count
               = Len(cleaned_articles_data))
    /\ [][(pc = "StoreLoop" /\ idx <= Len(cleaned_articles_data)) =>
            LET rec == cleaned_articles_data[idx]
                StagedNow == /\ session'.new # <<>>
                             /\ session'.new[Len(session'.new)].id = rec.pmid
                             /\ session'.new # session.new
            IN /\ stored_count' + skipped_count' + error_count'
                     = stored_count + skipped_count + error_count + 1
               /\ stored_count' = stored_count + 1 <=> StagedNow
               /\ stored_count' \in {stored_count, stored_count + 1}
               /\ rec.pmid \in {None, <<>>} =>
                     /\ skipped_count' = skipped_count + 1
                     /\ session' = session]_vars

\* A committed batch of three with one record stored, one without an
\* identifier skipped and one errored.
C16_Witness ==
    /\ pc = "Done" /\ commit = "ok"
    /\ Len(cleaned_articles_data) = 3
    /\ stored_count = 1 /\ skipped_count = 1 /\ error_count = 1
    /\ \E k \in 1..3 : cleaned_articles_data[k].pmid = None

====
